---------------------------- MODULE Spec2Model ----------------------------
(***************************************************************************)
(* Spanish First Flashcards (src/app.js, lines 1-453): the progress model, *)
(* the scheduling function applyGrade, the queue builders, the streak      *)
(* tracker and the asynchronous handlers (main, startSession, submitGrade, *)
(* resetAll) that drive them over the IndexedDB stores "progress" and      *)
(* "meta".                                                                 *)
(* Lines 455-538 of the file hold a second, simplified script (no stores,  *)
(* no grading); the handlers modelled here are those of lines 1-453.       *)
(*                                                                         *)
(* Units.  Time is in milliseconds, counted from a local midnight (the     *)
(* code's Date.now() is shifted by a constant).  ease is in hundredths     *)
(* (2.5 is 250).  intervalDays is an exact rational [n, d] in lowest       *)
(* terms.  dayKey's "yyyy-mm-dd" string is the one-element sequence holding *)
(* the index of the local day: the formatting is injective and the code    *)
(* only compares keys.  Every local day has 24 hours.                      *)
(***************************************************************************)
EXTENDS Integers, Sequences, FiniteSets, TLC

\* ---------------------------------------------------------------- bounds
\* Largest number the model computes with (times, numerators, denominators).
Horizon == 2000000000
\* applyGrade calls in one behaviour of SpecGrade.
MaxApply == 4
\* Clock advances in one behaviour.
MaxTicks == 2
\* Catalog entries and the limit argument in SpecAny.
MaxWords == 3
MaxLimit == 3
\* Session starts and grade clicks in one behaviour of the application.
MaxSessions == 2
MaxGrades == 2
MaxResets == 1
\* Size of buildAnyQueue's candidate pool: 800 in the code (line 206), scaled
\* down with MaxWords so that the cut takes place.
PoolCap == 2

\* ------------------------------------------------------ program constants
DayMs == 86400000
AgainMs == 600000
EaseLo == 130
EaseHi == 320
EaseStart == 250

Grades == {"again", "hard", "good", "easy"}

\* ------------------------------------------------------------- arithmetic
Min(a, b) == IF a <= b THEN a ELSE b
Max(a, b) == IF a >= b THEN a ELSE b

RECURSIVE GCD(_, _)
GCD(a, b) == IF b = 0 THEN a ELSE GCD(b, a % b)

\* Rationals n/d, d > 0, in lowest terms: the values of intervalDays.
Rat(n, d) == LET g == GCD(n, d) IN IF n = 0 THEN [n |-> 0, d |-> 1] ELSE [n |-> n \div g, d |-> d \div g]
RInt(k) == [n |-> k, d |-> 1]
RLeq(x, y) == x.n * y.d <= y.n * x.d
RLess(x, y) == x.n * y.d < y.n * x.d
\* x * (c / e), cross-reduced first so that the products stay small.
RMulParts(x, c, e) ==
    LET g1 == GCD(x.n, e)
        g2 == GCD(c, x.d)
    IN  [a |-> x.n \div g1, c |-> c \div g2, b |-> x.d \div g2, e |-> e \div g1]
RMulFits(x, c, e) ==
    LET q == RMulParts(x, c, e)
    IN  x.n = 0 \/ (q.a <= Horizon \div q.c /\ q.b <= Horizon \div q.e)
RMul(x, c, e) ==
    LET q == RMulParts(x, c, e)
    IN  IF x.n = 0 THEN RInt(0) ELSE Rat(q.a * q.c, q.b * q.e)
RMax(x, y) == IF RLeq(y, x) THEN x ELSE y

\* Math.round(x * 24 * 60 * 60 * 1000) for a rational x >= 0: floor(v + 1/2).
MsParts(x) ==
    LET g == GCD(x.d, DayMs)
        dd == x.d \div g
        mm == DayMs \div g
    IN  [q |-> x.n \div dd, r |-> x.n % dd, dd |-> dd, mm |-> mm]
MsFits(x) ==
    LET k == MsParts(x)
    IN  /\ k.q <= (Horizon \div 2) \div k.mm
        /\ k.dd <= (Horizon \div 4) \div k.mm
RoundMs(x) ==
    LET k == MsParts(x)
    IN  k.q * k.mm + ((2 * k.r * k.mm + k.dd) \div (2 * k.dd))

\* ---------------------------------------------------------- progress model
dayKey(ts) == <<ts \div DayMs>>

defaultProgress(t) ==
    [dueAt |-> t, intervalDays |-> RInt(0), ease |-> EaseStart,
     reps |-> 0, total |-> 0, correct |-> 0]

clampMutNoClamp(n, lo, hi) == n
clamp(n, lo, hi) == Max(lo, Min(hi, n))

easeDelta(grade) ==
    CASE grade = "again" -> -20
      [] grade = "hard"  -> -5
      [] grade = "good"  -> 0
      [] OTHER           -> 10

multNumMutNoEase(ease, grade) ==
    CASE grade = "hard" -> 8500
      [] grade = "easy" -> 11500
      [] OTHER          -> 10000
\* The grade-dependent factor of lines 150-152 as a fraction c / e of the
\* (already updated) ease in hundredths: ease * 0.85, ease * 1.15, ease.
multNum(ease, grade) ==
    CASE grade = "hard" -> ease * 85
      [] grade = "easy" -> ease * 115
      [] OTHER          -> ease * 100
MultDen == 10000

nextIntervalMutRepsAfter(reps, intervalDays, ease, grade) ==
    IF reps + 1 = 0 THEN RInt(1)
    ELSE IF reps + 1 = 1
         THEN RInt(IF grade = "hard" THEN 2 ELSE IF grade = "easy" THEN 4 ELSE 3)
         ELSE RMax(RInt(1), RMul(intervalDays, multNum(ease, grade), MultDen))
\* Lines 145-154: the new intervalDays of a grade other than "again".
nextInterval(reps, intervalDays, ease, grade) ==
    IF reps = 0 THEN RInt(1)
    ELSE IF reps = 1
         THEN RInt(IF grade = "hard" THEN 2 ELSE IF grade = "easy" THEN 4 ELSE 3)
         ELSE RMax(RInt(1), RMul(intervalDays, multNum(ease, grade), MultDen))

applyGradeMutCountAll(progress, grade, t) ==
    LET total == progress.total + 1
        correct == progress.correct + 1
        ease == clamp(progress.ease + easeDelta(grade), EaseLo, EaseHi)
    IN  IF grade = "again"
        THEN [dueAt |-> t + AgainMs, intervalDays |-> RInt(0), ease |-> ease,
              reps |-> Max(0, progress.reps - 1), total |-> total, correct |-> correct]
        ELSE LET iv == nextInterval(progress.reps, progress.intervalDays, ease, grade)
             IN  [dueAt |-> t + RoundMs(iv), intervalDays |-> iv, ease |-> ease,
                  reps |-> progress.reps + 1, total |-> total, correct |-> correct]
applyGradeMutNoFloor(progress, grade, t) ==
    LET total == progress.total + 1
        correct == IF grade # "again" THEN progress.correct + 1 ELSE progress.correct
        ease == clamp(progress.ease + easeDelta(grade), EaseLo, EaseHi)
    IN  IF grade = "again"
        THEN [dueAt |-> t + AgainMs, intervalDays |-> RInt(0), ease |-> ease,
              reps |-> progress.reps - 1, total |-> total, correct |-> correct]
        ELSE LET iv == nextInterval(progress.reps, progress.intervalDays, ease, grade)
             IN  [dueAt |-> t + RoundMs(iv), intervalDays |-> iv, ease |-> ease,
                  reps |-> progress.reps + 1, total |-> total, correct |-> correct]
\* applyGrade(progress, grade) called when nowMs() is t.
applyGrade(progress, grade, t) ==
    LET total == progress.total + 1
        correct == IF grade # "again" THEN progress.correct + 1 ELSE progress.correct
        ease == clamp(progress.ease + easeDelta(grade), EaseLo, EaseHi)
    IN  IF grade = "again"
        THEN [dueAt |-> t + AgainMs, intervalDays |-> RInt(0), ease |-> ease,
              reps |-> Max(0, progress.reps - 1), total |-> total, correct |-> correct]
        ELSE LET iv == nextInterval(progress.reps, progress.intervalDays, ease, grade)
             IN  [dueAt |-> t + RoundMs(iv), intervalDays |-> iv, ease |-> ease,
                  reps |-> progress.reps + 1, total |-> total, correct |-> correct]

\* The call stays inside the numbers the model can compute with.
Representable(progress, grade, t) ==
    LET ease == clamp(progress.ease + easeDelta(grade), EaseLo, EaseHi)
    IN  \/ grade = "again"
        \/ progress.reps < 2
        \/ /\ RMulFits(progress.intervalDays, multNum(ease, grade), MultDen)
           /\ MsFits(nextInterval(progress.reps, progress.intervalDays, ease, grade))

\* ------------------------------------------------------------ key-value
\* An object store is a function from the keys it holds to their values.
EmptyStore == <<>>
Has(store, k) == k \in DOMAIN store
Put(store, k, v) == [x \in (DOMAIN store) \cup {k} |-> IF x = k THEN v ELSE store[x]]

\* String(n) and parseInt(s, 10) for n >= 0: a decimal string is the sequence
\* of its digits.
RECURSIVE DecStr(_)
DecStr(n) == IF n < 10 THEN <<n>> ELSE Append(DecStr(n \div 10), n % 10)
RECURSIVE parseInt(_)
parseInt(s) == IF s = <<>> THEN 0 ELSE parseInt(SubSeq(s, 1, Len(s) - 1)) * 10 + s[Len(s)]

NoId == "null"
NoDay == <<>>

VARIABLES
    now,        \* Date.now()
    nTicks,     \* clock advances so far
    rec,        \* SpecGrade: the record under applyGrade
    lastGrade,  \* SpecGrade: the grade of the last call
    words,      \* state.words: the ids of the catalog entries, in order
    progress,   \* object store "progress": id -> record
    meta,       \* object store "meta": key -> value
    queue,      \* state.queue
    currentId,  \* state.currentId
    hint,       \* text of #studyHint
    any,        \* buildAnyQueue's frame: pc, pickFrom, chosen, limit
    main,       \* main's frame: pc, have, idx, p
    sess,       \* startSession's frame (with buildDueQueue's locals)
    grd,        \* submitGrade's frames, one per invocation slot
    nGrades,    \* grade clicks so far
    nSessions,  \* session starts so far
    reset,      \* resetAll's frame: pc, idx, p
    nResets     \* reset clicks so far

vars == <<now, nTicks, rec, lastGrade, words, progress, meta, queue, currentId,
          hint, any, main, sess, grd, nGrades, nSessions, reset, nResets>>
gradeVars == <<rec, lastGrade>>
resetVars == <<reset, nResets>>
appVars == <<words, progress, meta, queue, currentId, hint, main, sess, grd,
             nGrades, nSessions, reset, nResets>>

\* A synchronous loop is running: nothing else is scheduled until it ends.
Busy == any.pc = "loop"

\* ------------------------------------------------------------------ clock
\* The clock moves by ten minutes (a card graded "again" falls due; any delay
\* of a storage call is at least this visible) or by a day.
TickSteps == {AgainMs, DayMs}

Tick ==
    /\ ~Busy
    /\ nTicks < MaxTicks
    /\ \E d \in TickSteps : now' = now + d
    /\ nTicks' = nTicks + 1
    /\ UNCHANGED <<gradeVars, appVars, any>>

\* --------------------------------------------- frames of idle invocations
AnyIdle == [pc |-> "idle", pickFrom |-> <<>>, chosen |-> <<>>, limit |-> 0]
MainIdle == [pc |-> "idle", have |-> {}, idx |-> 0, p |-> defaultProgress(0)]
SessIdle == [pc |-> "idle", type |-> "none", map |-> EmptyStore, ts |-> 0, idx |-> 0,
             due |-> <<>>, p |-> defaultProgress(0)]
GradeIdle == [pc |-> "idle", id |-> NoId, grade |-> "none", p |-> defaultProgress(0),
              today |-> dayKey(0), last |-> NoDay, streak |-> 0, was |-> EmptyStore]
ResetIdle == [pc |-> "idle", idx |-> 0, p |-> defaultProgress(0)]
Slots == {1, 2}

AppIdle ==
    /\ words = <<>>
    /\ progress = EmptyStore
    /\ meta = EmptyStore
    /\ queue = <<>>
    /\ currentId = NoId
    /\ hint = "html"
    /\ main = MainIdle
    /\ sess = SessIdle
    /\ grd = [i \in Slots |-> GradeIdle]
    /\ nGrades = 0
    /\ nSessions = 0
    /\ reset = ResetIdle
    /\ nResets = 0

\* --------------------------------------------- SpecGrade: applyGrade alone
\* Starting eases: the default and values at and next to both clamps.
StartEases == {EaseLo, EaseLo + 1, EaseLo + 15, EaseStart, EaseHi - 5, EaseHi}

InitGrade ==
    /\ now = 0
    /\ nTicks = 0
    /\ \E e \in StartEases : rec = [defaultProgress(0) EXCEPT !.ease = e]
    /\ lastGrade = "none"
    /\ AppIdle
    /\ any = AnyIdle

Apply ==
    /\ rec.total < MaxApply
    /\ \E g \in Grades :
         /\ Representable(rec, g, now)
         /\ rec' = applyGrade(rec, g, now)
         /\ lastGrade' = g
    /\ UNCHANGED <<now, nTicks, appVars, any>>

NextGrade == Apply \/ Tick

SpecGrade == InitGrade /\ [][NextGrade]_vars

\* ----------------------------------------------------------- buildAnyQueue
\* Lines 201-204: one {id, score} per catalog entry, score the dueAt of the
\* stored record or of a fresh default record.
scoredOf(ws, store, t) ==
    [i \in 1..Len(ws) |->
        [id |-> ws[i], score |-> IF Has(store, ws[i]) THEN store[ws[i]].dueAt ELSE t]]

\* Array.prototype.sort with (a, b) => a.score - b.score: stable, ascending.
RECURSIVE InsertSorted(_, _)
InsertSorted(sorted, x) ==
    IF sorted = <<>> THEN <<x>>
    ELSE IF sorted[Len(sorted)].score <= x.score
         THEN Append(sorted, x)
         ELSE Append(InsertSorted(SubSeq(sorted, 1, Len(sorted) - 1), x), sorted[Len(sorted)])
RECURSIVE SortByScore(_)
SortByScore(xs) ==
    IF xs = <<>> THEN <<>>
    ELSE InsertSorted(SortByScore(SubSeq(xs, 1, Len(xs) - 1)), xs[Len(xs)])

\* Line 206: scored.slice(0, Math.min(PoolCap, scored.length)).
pickFromOfMutNoSort(ws, store, t) ==
    LET scored == scoredOf(ws, store, t)
    IN  SubSeq(scored, 1, Min(PoolCap, Len(scored)))
pickFromOf(ws, store, t) ==
    LET scored == SortByScore(scoredOf(ws, store, t))
    IN  SubSeq(scored, 1, Min(PoolCap, Len(scored)))

Includes(seq, x) == \E k \in 1..Len(seq) : seq[k] = x

\* Line 208: the loop condition.
anyLoopTest(a) == Len(a.chosen) < Min(a.limit, Len(a.pickFrom))

\* Lines 199-207, after dbGetAll has answered.
AnyScan(limit) ==
    any' = [pc |-> "loop", pickFrom |-> pickFromOf(words, progress, now),
            chosen |-> <<>>, limit |-> limit]

\* Lines 209-211: one pass of the loop body, idx the random index drawn.
AnyDraw ==
    /\ any.pc = "loop"
    /\ anyLoopTest(any)
    /\ \E idx \in 1..Len(any.pickFrom) :
         LET id == any.pickFrom[idx].id
         IN  any' = [any EXCEPT !.chosen = IF Includes(any.chosen, id) THEN @ ELSE Append(@, id)]
    /\ UNCHANGED <<now, nTicks, gradeVars, appVars>>

\* --------------------------------------------- SpecAny: buildAnyQueue alone
Ids == {"a", "b", "c"}
RECURSIVE SeqsUpTo(_, _)
SeqsUpTo(S, n) ==
    IF n = 0 THEN {<<>>}
    ELSE LET shorter == SeqsUpTo(S, n - 1)
         IN  shorter \cup {Append(q, x) : q \in {r \in shorter : Len(r) = n - 1}, x \in S}
\* dueAt of the stored records: before and after the time of the call.
AnyDueAts == {0, DayMs}

InitAny ==
    /\ now = AgainMs
    /\ nTicks = 0
    /\ rec = defaultProgress(0)
    /\ lastGrade = "none"
    /\ words \in SeqsUpTo(Ids, MaxWords)
    /\ \E present \in SUBSET Ids :
         progress \in [present -> {[defaultProgress(0) EXCEPT !.dueAt = t] : t \in AnyDueAts}]
    /\ meta = EmptyStore
    /\ queue = <<>>
    /\ currentId = NoId
    /\ hint = "html"
    /\ main = MainIdle
    /\ sess = SessIdle
    /\ grd = [i \in Slots |-> GradeIdle]
    /\ nGrades = 0
    /\ nSessions = 0
    /\ reset = ResetIdle
    /\ nResets = 0
    /\ \E limit \in 0..MaxLimit : any = [AnyIdle EXCEPT !.pc = "getAll", !.limit = limit]

AnyGetAll ==
    /\ any.pc = "getAll"
    /\ AnyScan(any.limit)
    /\ UNCHANGED <<now, nTicks, gradeVars, appVars>>

\* Line 213: return chosen.
AnyReturn ==
    /\ any.pc = "loop"
    /\ ~anyLoopTest(any)
    /\ any' = [any EXCEPT !.pc = "done"]
    /\ UNCHANGED <<now, nTicks, gradeVars, appVars>>

NextAny == AnyGetAll \/ AnyDraw \/ AnyReturn

SpecAny == InitAny /\ [][NextAny]_vars

\* ------------------------------------------------------------- UI helpers
\* getWord(id) finds an entry.
getWord(ws, id) == Includes(ws, id)

\* renderCurrent's setHint("studyHint", ...): whatever the hint was (prev),
\* it is set to "Go to Today ..." when there is no current word, else cleared.
renderCurrentHint(prev, ws, cur) == IF getWord(ws, cur) THEN "" ELSE "goToday"

shiftMutRequeue(q) ==
    IF q = <<>> THEN [cur |-> NoId, rest |-> <<>>]
    ELSE [cur |-> Head(q), rest |-> Append(Tail(q), Head(q))]
\* state.queue.shift() || null, and what is left of the queue.
shift(q) == IF q = <<>> THEN [cur |-> NoId, rest |-> <<>>] ELSE [cur |-> Head(q), rest |-> Tail(q)]

\* ------------------------------------------------------------------- main
\* The catalogs words.json may hold: none, one or two entries, two of them
\* possibly deriving the same id.
Catalogs == {<<>>, <<"a">>, <<"a", "b">>, <<"a", "a">>}

\* First index from `from` on whose id is not in `have`, 0 when there is none.
NextMissing(ws, have, from) ==
    LET c == {i \in from..Len(ws) : ws[i] \notin have}
    IN  IF c = {} THEN 0 ELSE CHOOSE i \in c : \A k \in c : i <= k

\* Line 440: loadWords succeeds.
MainLoadOk ==
    /\ ~Busy
    /\ main.pc = "load"
    /\ \E cat \in Catalogs : words' = cat
    /\ main' = [main EXCEPT !.pc = "getAll"]
    /\ UNCHANGED <<now, nTicks, gradeVars, resetVars, any, progress, meta, queue, currentId, hint,
                   sess, grd, nGrades, nSessions>>

\* Line 440: fetch or resp.json() rejects, or raw.map throws: main's promise
\* is rejected and nothing after line 440 runs.
MainLoadFail ==
    /\ ~Busy
    /\ main.pc = "load"
    /\ main' = [main EXCEPT !.pc = "rejected"]
    /\ UNCHANGED <<now, nTicks, gradeVars, resetVars, any, words, progress, meta, queue, currentId,
                   hint, sess, grd, nGrades, nSessions>>

\* The loop of lines 445-447 from index `from`, up to its next await.
MainLoopFrom(have, from) ==
    LET idx == NextMissing(words, have, from)
    IN  IF idx = 0
        THEN [pc |-> "refresh", have |-> have, idx |-> 0, p |-> defaultProgress(0)]
        ELSE [pc |-> "put", have |-> have, idx |-> idx, p |-> defaultProgress(now)]

\* Lines 443-446: dbGetAll answers.
MainGetAll ==
    /\ ~Busy
    /\ main.pc = "getAll"
    /\ main' = MainLoopFrom(DOMAIN progress, 1)
    /\ UNCHANGED <<now, nTicks, gradeVars, resetVars, any, words, progress, meta, queue, currentId,
                   hint, sess, grd, nGrades, nSessions>>

\* Line 446: dbPut completes.
MainPut ==
    /\ ~Busy
    /\ main.pc = "put"
    /\ progress' = Put(progress, words[main.idx], main.p)
    /\ main' = MainLoopFrom(main.have, main.idx + 1)
    /\ UNCHANGED <<now, nTicks, gradeVars, resetVars, any, words, meta, queue, currentId, hint,
                   sess, grd, nGrades, nSessions>>

\* Lines 449-452: refreshToday and refreshStats only read the stores and
\* write counters to the page; renderCurrent then sets the study hint.
MainRefresh ==
    /\ ~Busy
    /\ main.pc = "refresh"
    /\ hint' = renderCurrentHint(hint, words, currentId)
    /\ main' = [main EXCEPT !.pc = "done"]
    /\ UNCHANGED <<now, nTicks, gradeVars, resetVars, any, words, progress, meta, queue, currentId,
                   sess, grd, nGrades, nSessions>>

\* ----------------------------------------------------------- startSession
AnyLimit == 20
DueLimit == 200

\* No event handler is in flight.
Quiet ==
    /\ sess.pc \in {"idle", "done"}
    /\ \A i \in Slots : grd[i].pc = "idle"
    /\ reset.pc = "idle"

\* Lines 268-270: the click on startDueBtn ("due") or studyAnyBtn ("any").
StartClick ==
    /\ ~Busy
    /\ sess.pc \in {"idle", "done"}
    /\ nSessions < MaxSessions
    /\ \E type \in {"due", "any"} :
         sess' = [SessIdle EXCEPT !.pc = IF type = "due" THEN "dueGetAll" ELSE "anyGetAll",
                                  !.type = type]
    /\ nSessions' = nSessions + 1
    /\ UNCHANGED <<now, nTicks, gradeVars, resetVars, any, words, progress, meta, queue, currentId,
                   hint, main, grd, nGrades>>

\* Lines 182-187 from index idx, up to the next await (a record missing from
\* progMap) or the end of the catalog.
RECURSIVE dueScan(_, _, _, _, _)
dueScan(ws, map, ts, idx, due) ==
    IF idx > Len(ws) \/ ~Has(map, ws[idx])
    THEN [idx |-> idx, due |-> due]
    ELSE dueScan(ws, map, ts, idx + 1,
                 IF map[ws[idx]].dueAt <= ts THEN Append(due, ws[idx]) ELSE due)

\* Lines 190-193: the orders a Fisher-Yates shuffle can leave.
Shuffles(seq) ==
    LET n == Len(seq)
        perms == {f \in [1..n -> 1..n] : \A a, b \in 1..n : f[a] = f[b] => a = b}
    IN  {[i \in 1..n |-> seq[f[i]]] : f \in perms}

\* Lines 280-284, with the hint as lines 275/277 left it: shift, renderCurrent,
\* and the click on the Study tab (refreshStudyUI renders again when there is
\* no current card).
SessTail(q, hintSet) ==
    LET sh == shift(q)
        rendered == renderCurrentHint(hintSet, words, sh.cur)
    IN  /\ queue' = sh.rest
        /\ currentId' = sh.cur
        /\ hint' = IF sh.cur = NoId THEN renderCurrentHint(rendered, words, sh.cur) ELSE rendered
        /\ sess' = [SessIdle EXCEPT !.pc = "done", !.type = sess.type]

\* buildDueQueue returns (lines 189-194) and startSession goes on (269-278).
DueFinish(due) ==
    \E perm \in Shuffles(due) :
        LET q == SubSeq(perm, 1, Min(DueLimit, Len(perm)))
        IN  IF q = <<>>
            THEN /\ queue' = q
                 /\ sess' = [SessIdle EXCEPT !.pc = "fbGetAll", !.type = sess.type]
                 /\ UNCHANGED <<currentId, hint>>
            ELSE SessTail(q, "")

\* The loop of buildDueQueue goes on from idx.
DueLoopFrom(map, ts, idx, due) ==
    LET r == dueScan(words, map, ts, idx, due)
    IN  IF r.idx <= Len(words)
        THEN /\ sess' = [sess EXCEPT !.pc = "duePut", !.map = map, !.ts = ts, !.idx = r.idx,
                                     !.due = r.due, !.p = defaultProgress(now)]
             /\ UNCHANGED <<queue, currentId, hint>>
        ELSE DueFinish(r.due)

\* Lines 176-186: dbGetAll answers.
SessDueGetAll ==
    /\ ~Busy
    /\ sess.pc = "dueGetAll"
    /\ DueLoopFrom(progress, now, 1, <<>>)
    /\ UNCHANGED <<now, nTicks, gradeVars, resetVars, any, words, progress, meta, main, grd,
                   nGrades, nSessions>>

\* Lines 185-186: dbPut of a lazily created record completes.
SessDuePut ==
    /\ ~Busy
    /\ sess.pc = "duePut"
    /\ progress' = Put(progress, words[sess.idx], sess.p)
    /\ DueLoopFrom(sess.map, sess.ts, sess.idx + 1,
                   IF sess.p.dueAt <= sess.ts THEN Append(sess.due, words[sess.idx]) ELSE sess.due)
    /\ UNCHANGED <<now, nTicks, gradeVars, resetVars, any, words, meta, main, grd, nGrades, nSessions>>

\* Lines 270/274 and 199-207: buildAnyQueue(20), dbGetAll answers.
SessAnyGetAll ==
    /\ ~Busy
    /\ sess.pc \in {"anyGetAll", "fbGetAll"}
    /\ AnyScan(AnyLimit)
    /\ UNCHANGED <<now, nTicks, gradeVars, appVars>>

\* Line 213 and lines 270-284: buildAnyQueue returns, startSession goes on.
SessAnyReturn ==
    /\ any.pc = "loop"
    /\ sess.pc \in {"anyGetAll", "fbGetAll"}
    /\ ~anyLoopTest(any)
    /\ any' = AnyIdle
    /\ SessTail(any.chosen, IF sess.pc = "fbGetAll" THEN "mixed" ELSE "")
    /\ UNCHANGED <<now, nTicks, gradeVars, resetVars, words, progress, meta, main, grd, nGrades,
                   nSessions>>

\* ------------------------------------------------------------ submitGrade
\* dbGet(store, key): req.result || null.
dbGetOr(store, k, none) == IF Has(store, k) THEN store[k] ELSE none

\* Lines 375-385 of computeStreak, once both dbGet calls have answered:
\* lastDay is metaLast?.value || null, streakStr is metaStreak?.value || "0",
\* t is Date.now().
computeStreak(lastDay, streakStr, t) ==
    LET streak == parseInt(streakStr)
        today == dayKey(t)
        yesterday == dayKey(t - DayMs)
    IN  IF lastDay = NoDay THEN 0
        ELSE IF lastDay = today THEN streak
        ELSE IF lastDay = yesterday THEN Max(1, streak + 1)
        ELSE 1

noCurrentMutNever(id) == FALSE
\* Line 296: `!id`, the test that no card is current.
noCurrent(id) == id = NoId

\* The grade buttons clicked in the application: a failure and a success.
AppGrades == {"again", "good"}

\* Lines 294-298: a click on a grade button while a card is current.  The
\* invocation takes the lowest free slot; `was` remembers the meta store as
\* the click found it (history, not program state).
GradeClick ==
    /\ ~Busy
    /\ nGrades < MaxGrades
    /\ ~noCurrent(currentId)
    /\ \E i \in Slots, g \in AppGrades :
         /\ grd[i].pc = "idle"
         /\ \A k \in Slots : k < i => grd[k].pc # "idle"
         /\ grd' = [grd EXCEPT ![i] = [GradeIdle EXCEPT !.pc = "get", !.id = currentId,
                                                        !.grade = g, !.was = meta]]
    /\ nGrades' = nGrades + 1
    /\ UNCHANGED <<now, nTicks, gradeVars, resetVars, any, words, progress, meta, queue, currentId,
                   hint, main, sess, nSessions>>

\* Lines 295-296: a click on a grade button with no current card returns.
GradeNoCurrent ==
    /\ ~Busy
    /\ nGrades < MaxGrades
    /\ noCurrent(currentId)
    /\ nGrades' = nGrades + 1
    /\ UNCHANGED <<now, nTicks, gradeVars, resetVars, any, words, progress, meta, queue, currentId,
                   hint, main, sess, grd, nSessions>>

\* Lines 298-300: dbGet answers; applyGrade; dbPut is issued.
GradeGet ==
    /\ ~Busy
    /\ \E i \in Slots :
         /\ grd[i].pc = "get"
         /\ LET p == dbGetOr(progress, grd[i].id, defaultProgress(now))
            IN  /\ Representable(p, grd[i].grade, now)
                /\ grd' = [grd EXCEPT ![i].pc = "putProgress",
                                      ![i].p = applyGrade(p, grd[i].grade, now)]
    /\ UNCHANGED <<now, nTicks, gradeVars, resetVars, any, words, progress, meta, queue, currentId,
                   hint, main, sess, nGrades, nSessions>>

\* Lines 300-304: dbPut("progress", p) completes; today = dayKey().
GradePutProgress ==
    /\ ~Busy
    /\ \E i \in Slots :
         /\ grd[i].pc = "putProgress"
         /\ progress' = Put(progress, grd[i].id, grd[i].p)
         /\ grd' = [grd EXCEPT ![i].pc = "putLastReviewDay", ![i].today = dayKey(now)]
    /\ UNCHANGED <<now, nTicks, gradeVars, resetVars, any, words, meta, queue, currentId, hint,
                   main, sess, nGrades, nSessions>>

\* Lines 304-305: dbPut("meta", lastReviewDay) completes; computeStreak starts.
GradePutLastReviewDay ==
    /\ ~Busy
    /\ \E i \in Slots :
         /\ grd[i].pc = "putLastReviewDay"
         /\ meta' = Put(meta, "lastReviewDay", grd[i].today)
         /\ grd' = [grd EXCEPT ![i].pc = "getLastReviewDay"]
    /\ UNCHANGED <<now, nTicks, gradeVars, resetVars, any, words, progress, queue, currentId, hint,
                   main, sess, nGrades, nSessions>>

\* Line 372: dbGet("meta", "lastReviewDay") answers.
GradeGetLastReviewDay ==
    /\ ~Busy
    /\ \E i \in Slots :
         /\ grd[i].pc = "getLastReviewDay"
         /\ grd' = [grd EXCEPT ![i].pc = "getStreak",
                               ![i].last = dbGetOr(meta, "lastReviewDay", NoDay)]
    /\ UNCHANGED <<now, nTicks, gradeVars, resetVars, any, words, progress, meta, queue, currentId,
                   hint, main, sess, nGrades, nSessions>>

\* Lines 373-385 and 305-306: dbGet("meta", "streak") answers; computeStreak
\* returns; dbPut("meta", streak) is issued.
GradeGetStreak ==
    /\ ~Busy
    /\ \E i \in Slots :
         /\ grd[i].pc = "getStreak"
         /\ grd' = [grd EXCEPT ![i].pc = "putStreak",
                               ![i].streak = computeStreak(grd[i].last,
                                                 dbGetOr(meta, "streak", DecStr(0)), now)]
    /\ UNCHANGED <<now, nTicks, gradeVars, resetVars, any, words, progress, meta, queue, currentId,
                   hint, main, sess, nGrades, nSessions>>

\* Lines 306-313: dbPut("meta", streak) completes; the next card is shifted
\* in and rendered (refreshToday and refreshStats only read the stores).
GradePutStreak ==
    /\ ~Busy
    /\ \E i \in Slots :
         /\ grd[i].pc = "putStreak"
         /\ meta' = Put(meta, "streak", DecStr(grd[i].streak))
         /\ LET sh == shift(queue)
            IN  /\ queue' = sh.rest
                /\ currentId' = sh.cur
                /\ hint' = renderCurrentHint(hint, words, sh.cur)
         /\ grd' = [grd EXCEPT ![i] = GradeIdle]
    /\ UNCHANGED <<now, nTicks, gradeVars, resetVars, any, words, progress, main, sess, nGrades,
                   nSessions>>

\* ---------------------------------------------------------------- reset
ResetLoopFromMutFirstOnly(idx) ==
    IF idx <= Min(1, Len(words))
    THEN [pc |-> "put", idx |-> idx, p |-> defaultProgress(now)]
    ELSE ResetIdle
\* Lines 410-415: the loop of resetAll from catalog position idx on: the next
\* default record is built and its dbPut awaited, or, past the last entry,
\* resetAll returns (the hint it sets and the views it refreshes belong to
\* other tabs).
ResetLoopFrom(idx) ==
    IF idx <= Len(words)
    THEN [pc |-> "put", idx |-> idx, p |-> defaultProgress(now)]
    ELSE ResetIdle

\* Lines 432-435, 407: a click on the reset button calls resetAll, which
\* awaits dbClear("progress").
ResetClick ==
    /\ ~Busy
    /\ reset.pc = "idle"
    /\ nResets < MaxResets
    /\ nResets' = nResets + 1
    /\ reset' = [ResetIdle EXCEPT !.pc = "clearProgress"]
    /\ UNCHANGED <<now, nTicks, gradeVars, any, words, progress, meta, queue, currentId,
                   hint, main, sess, grd, nGrades, nSessions>>

\* Line 407: dbClear("progress") is done; dbClear("meta") is awaited.
ResetClearProgress ==
    /\ ~Busy
    /\ reset.pc = "clearProgress"
    /\ progress' = EmptyStore
    /\ reset' = [reset EXCEPT !.pc = "clearMeta"]
    /\ UNCHANGED <<now, nTicks, gradeVars, any, words, meta, queue, currentId, hint,
                   main, sess, grd, nGrades, nSessions, nResets>>

\* Lines 408-412: dbClear("meta") is done; the loop over state.words begins.
ResetClearMeta ==
    /\ ~Busy
    /\ reset.pc = "clearMeta"
    /\ meta' = EmptyStore
    /\ reset' = ResetLoopFrom(1)
    /\ UNCHANGED <<now, nTicks, gradeVars, any, words, progress, queue, currentId, hint,
                   main, sess, grd, nGrades, nSessions, nResets>>

\* Lines 410-415: a dbPut of the loop is done; the loop goes on or ends.
ResetPut ==
    /\ ~Busy
    /\ reset.pc = "put"
    /\ progress' = Put(progress, words[reset.idx], reset.p)
    /\ reset' = ResetLoopFrom(reset.idx + 1)
    /\ UNCHANGED <<now, nTicks, gradeVars, any, words, meta, queue, currentId, hint,
                   main, sess, grd, nGrades, nSessions, nResets>>

\* ------------------------------------------------------ the application
Init ==
    /\ now = 0
    /\ nTicks = 0
    /\ rec = defaultProgress(0)
    /\ lastGrade = "none"
    /\ any = AnyIdle
    /\ words = <<>>
    /\ progress = EmptyStore
    /\ meta = EmptyStore
    /\ queue = <<>>
    /\ currentId = NoId
    /\ hint = "html"
    /\ main = [MainIdle EXCEPT !.pc = "load"]
    /\ sess = SessIdle
    /\ grd = [i \in Slots |-> GradeIdle]
    /\ nGrades = 0
    /\ nSessions = 0
    /\ reset = ResetIdle
    /\ nResets = 0

\* The steps every handler takes once it has started.
Steps ==
    \/ Tick
    \/ MainLoadOk \/ MainLoadFail \/ MainGetAll \/ MainPut \/ MainRefresh
    \/ SessDueGetAll \/ SessDuePut \/ SessAnyGetAll \/ AnyDraw \/ SessAnyReturn
    \/ GradeGet \/ GradePutProgress \/ GradePutLastReviewDay \/ GradeGetLastReviewDay
    \/ GradeGetStreak \/ GradePutStreak
    \/ ResetClearProgress \/ ResetClearMeta \/ ResetPut

\* Events arrive at any time.
Next == Steps \/ StartClick \/ GradeClick \/ GradeNoCurrent \/ ResetClick

Spec == Init /\ [][Next]_vars

\* Events arrive one at a time: each only after the handler of the one before
\* has completed (main may still be booting).
SeqStartClick == Quiet /\ StartClick
SeqGradeClick == Quiet /\ GradeClick
SeqGradeNoCurrent == Quiet /\ GradeNoCurrent
SeqResetClick == Quiet /\ ResetClick

SeqNext == Steps \/ SeqStartClick \/ SeqGradeClick \/ SeqGradeNoCurrent \/ SeqResetClick

SeqSpec == Init /\ [][SeqNext]_vars

\* Events arrive at any time once boot has finished, handlers overlapping,
\* on a catalog of two entries: the behaviours of Spec in which the catalog
\* loads as two different ids, nothing is clicked during boot and all of it
\* happens within one reading of the clock.
Booted == main.pc = "done"
RaceLoad == MainLoadOk /\ words' = <<"a", "b">>
RaceStartClick == Booted /\ StartClick
RaceGradeClick == Booted /\ GradeClick
RaceGradeNoCurrent == Booted /\ GradeNoCurrent
RaceResetClick == Booted /\ ResetClick

RaceNext ==
    \/ RaceLoad \/ MainGetAll \/ MainPut \/ MainRefresh
    \/ SessDueGetAll \/ SessDuePut \/ SessAnyGetAll \/ AnyDraw \/ SessAnyReturn
    \/ GradeGet \/ GradePutProgress \/ GradePutLastReviewDay \/ GradeGetLastReviewDay
    \/ GradeGetStreak \/ GradePutStreak
    \/ ResetClearProgress \/ ResetClearMeta \/ ResetPut
    \/ RaceStartClick \/ RaceGradeClick \/ RaceGradeNoCurrent \/ RaceResetClick

RaceSpec == Init /\ [][RaceNext]_vars

\* An applyGrade call has just been made (with grade lastGrade').
Applied == rec'.total = rec.total + 1

\* C4: from any starting ease in [1.3, 3.2] and after any sequence of grades,
\* every applyGrade call leaves ease within [1.3, 3.2], at the old ease moved
\* by -0.20 (again), -0.05 (hard), 0.00 (good) or +0.10 (easy) and then clamped.
C4_EaseStaysClamped ==
    [][Applied =>
        LET d == CASE lastGrade' = "again" -> -20
                   [] lastGrade' = "hard" -> -5
                   [] lastGrade' = "good" -> 0
                   [] lastGrade' = "easy" -> 10
            moved == rec.ease + d
        IN  /\ rec.ease >= 130 /\ rec.ease <= 320
            /\ rec'.ease >= 130 /\ rec'.ease <= 320
            /\ rec'.ease = (IF moved < 130 THEN 130 ELSE IF moved > 320 THEN 320 ELSE moved)]_vars
\* A first grade "again" from an ease less than 0.20 above the lower clamp.
C4_Witness == rec.total = 1 /\ lastGrade = "again" /\ rec.ease = 130

\* C5: for every record reached from a default record by grades applied at
\* non-decreasing clock times, a grade other than "again" raises reps by
\* exactly 1 and leaves dueAt strictly later than before, at least one day
\* after now.
C5_CorrectGradeAdvances ==
    [][(Applied /\ lastGrade' # "again") =>
        /\ rec'.reps = rec.reps + 1
        /\ rec'.dueAt > rec.dueAt
        /\ rec'.dueAt >= now + 86400000]_vars
\* A third consecutive success: the multiplicative branch produced a
\* fractional interval.
C5_Witness == lastGrade # "again" /\ lastGrade # "none" /\ rec.reps = 3 /\ rec.intervalDays.d > 1

\* C6: "again" sets intervalDays to 0 and dueAt to now + 600000 ms, sets reps
\* to max(0, reps - 1) (never negative, never increased), and still applies
\* the ease change; the interval and reps-increment steps are skipped.
C6_AgainResets ==
    [][(Applied /\ lastGrade' = "again") =>
        /\ rec'.intervalDays = [n |-> 0, d |-> 1]
        /\ rec'.dueAt = now + 600000
        /\ rec'.reps = (IF rec.reps >= 1 THEN rec.reps - 1 ELSE 0)
        /\ rec'.reps >= 0 /\ rec'.reps <= rec.reps
        /\ rec'.ease = (IF rec.ease - 20 < 130 THEN 130 ELSE rec.ease - 20)]_vars
\* "again" on a record that had two successes (interval of 2 to 4 days).
C6_Witness == lastGrade = "again" /\ rec.total = 3 /\ rec.reps = 1 /\ rec.correct = 2

\* C9: for every catalog and limit buildAnyQueue terminates under fair draws,
\* also when catalog entries derive the same id.  As a property of the loop:
\* whenever the loop test holds, some index can be drawn whose id is not yet
\* chosen, so that a fair sequence of draws makes progress (otherwise no draw
\* ever changes chosen and the loop runs for ever).
C9_AnyQueueTerminates ==
    (any.pc = "loop" /\ Len(any.chosen) < Min(any.limit, Len(any.pickFrom)))
        => \E idx \in 1..Len(any.pickFrom) :
               \A k \in 1..Len(any.chosen) : any.chosen[k] # any.pickFrom[idx].id

\* The dueAt buildAnyQueue sees for catalog entry i.
C10_Score(i) == IF words[i] \in DOMAIN progress THEN progress[words[i]].dueAt ELSE now
\* C10: the sequence buildAnyQueue returns has no repeated id, its length is
\* min(limit, pool size) with pool size min(PoolCap, catalog size), and each
\* returned id is the id of a catalog entry among the PoolCap earliest dueAt
\* (fewer than PoolCap entries are strictly earlier).
C10_AnyQueueResult ==
    any.pc = "done" =>
        /\ \A k1, k2 \in 1..Len(any.chosen) : any.chosen[k1] = any.chosen[k2] => k1 = k2
        /\ Len(any.chosen) = Min(any.limit, Min(PoolCap, Len(words)))
        /\ \A k \in 1..Len(any.chosen) :
             \E i \in 1..Len(words) :
                /\ words[i] = any.chosen[k]
                /\ Cardinality({j \in 1..Len(words) : C10_Score(j) < C10_Score(i)}) < PoolCap
\* A full pool was returned from a catalog with more entries than the pool,
\* one of them, with a strictly later dueAt, cut off.
C10_Witness ==
    /\ any.pc = "done"
    /\ Len(words) > PoolCap
    /\ Len(any.chosen) = PoolCap
    /\ \E i \in 1..Len(words) :
         /\ \A k \in 1..Len(any.chosen) : any.chosen[k] # words[i]
         /\ \A j \in 1..Len(words) : j # i => C10_Score(j) < C10_Score(i)

\* Invocation i of submitGrade completes in this step (line 306 onwards).
GradeCompletes(i) == grd[i].pc = "putStreak" /\ grd'[i].pc = "idle"
\* The streak the meta store held when the invocation's click arrived.
StreakWas(i) == IF "streak" \in DOMAIN grd[i].was THEN parseInt(grd[i].was["streak"]) ELSE 0

\* C1: from a meta store with neither lastReviewDay nor streak, when the first
\* graded review completes the persisted streak is "1".
C1_FirstReviewStreakOne ==
    [][\A i \in Slots :
          (GradeCompletes(i) /\ DOMAIN grd[i].was = {})
              => meta'["streak"] = <<1>>]_vars

\* C2: when the review before was on local day D with persisted streak s and
\* this review is on day D + 1, the streak persisted when it completes is
\* s + 1 (at least 1).
C2_NextDayIncrements ==
    [][\A i \in Slots :
          (/\ GradeCompletes(i)
           /\ "lastReviewDay" \in DOMAIN grd[i].was
           /\ grd[i].today[1] = grd[i].was["lastReviewDay"][1] + 1)
              => /\ parseInt(meta'["streak"]) = StreakWas(i) + 1
                 /\ parseInt(meta'["streak"]) >= 1]_vars

\* C3: when the review before was two or more local days before this one, the
\* streak persisted when this review completes is exactly "1".
C3_GapResets ==
    [][\A i \in Slots :
          (/\ GradeCompletes(i)
           /\ "lastReviewDay" \in DOMAIN grd[i].was
           /\ grd[i].today[1] >= grd[i].was["lastReviewDay"][1] + 2)
              => meta'["streak"] = <<1>>]_vars

\* C7: once loading the catalog has failed, a started session never ends in
\* the ordinary empty state (no current card, empty queue, the "All done"
\* rendering with its "Go to Today" hint).
C7_LoadFailureIsExplicit ==
    (main.pc = "rejected" /\ sess.pc = "done")
        => ~(currentId = NoId /\ queue = <<>> /\ hint = "goToday")

\* C8: when startSession("due") found nothing due in a non-empty catalog and
\* returns from the fallback, the queue and current card are the result of
\* buildAnyQueue(20) and the study hint is the "studying a mixed set instead"
\* message.
C8_FallbackHintShown ==
    [][(/\ sess.pc = "fbGetAll" /\ sess'.pc = "done"
        /\ words # <<>>
        /\ \A k \in 1..Len(words) :
              words[k] \in DOMAIN progress /\ progress[words[k]].dueAt > now)
          => /\ <<currentId'>> \o queue' = any.chosen
             /\ hint' = "mixed"]_vars

\* C16: a grade other than "again" sets intervalDays from reps before the
\* increment and from the ease already updated for this grade: 1 at reps 0;
\* 2 (hard), 3 (good), 4 (easy) at reps 1; from reps 2 on the old interval
\* times ease * 0.85 (hard), ease (good), ease * 1.15 (easy), at least 1.
\* So {intervalDays 3, reps 2, ease 2.5} graded good gives 7.5, reps 3, 2.5.
C16_IntervalByReps ==
    [][(Applied /\ lastGrade' # "again") =>
        LET g == lastGrade'
            k == IF g = "hard" THEN 85 ELSE IF g = "easy" THEN 115 ELSE 100
            grown == RMul(rec.intervalDays, rec'.ease * k, 10000)
        IN  /\ rec.reps = 0 => rec'.intervalDays = [n |-> 1, d |-> 1]
            /\ rec.reps = 1 =>
                 rec'.intervalDays = [n |-> (IF g = "hard" THEN 2 ELSE IF g = "easy" THEN 4 ELSE 3),
                                      d |-> 1]
            /\ rec.reps >= 2 =>
                 rec'.intervalDays = (IF grown.n < grown.d THEN [n |-> 1, d |-> 1] ELSE grown)
            /\ (rec.reps = 2 /\ rec.intervalDays = [n |-> 3, d |-> 1] /\ rec.ease = 250 /\ g = "good")
                 => (rec'.intervalDays = [n |-> 15, d |-> 2] /\ rec'.reps = 3 /\ rec'.ease = 250)]_vars
\* The scenario of the claim: 3 days at reps 2 and ease 2.5, graded good.
C16_Witness ==
    /\ lastGrade = "good" /\ rec.total = 3 /\ rec.reps = 3 /\ rec.ease = 250
    /\ rec.intervalDays = [n |-> 15, d |-> 2]
    /\ rec.dueAt = now + 648000000

\* C17: every applyGrade call raises total by exactly 1 and raises correct by
\* exactly 1 if and only if the grade is not "again"; so 0 <= correct <= total
\* for every record reached from a default record.  (In SpecGrade every step
\* that leaves the tick count alone is an applyGrade call.)
C17_CountersAdvance ==
    [][(nTicks' = nTicks) =>
        /\ rec'.total = rec.total + 1
        /\ rec'.correct = rec.correct + (IF lastGrade' = "again" THEN 0 ELSE 1)
        /\ 0 <= rec.correct /\ rec.correct <= rec.total
        /\ 0 <= rec'.correct /\ rec'.correct <= rec'.total]_vars
\* Failures and successes mixed: three calls, one of them not "again".
C17_Witness == rec.total = 3 /\ rec.correct = 1 /\ lastGrade = "again"

\* C13: a grade click while no card is current is a no-op: the progress
\* store, both meta entries, the queue and currentId stay as they were, no
\* submitGrade invocation is left running and nothing is shown.
C13_GradeWithoutCurrentIsNoOp ==
    [][(nGrades' = nGrades + 1 /\ currentId = NoId) =>
        /\ UNCHANGED <<progress, meta, queue, currentId, hint>>
        /\ grd' = grd
        /\ \A i \in Slots : grd'[i].pc = "idle"]_vars
\* Both grade clicks found no current card, after boot created the records.
C13_Witness ==
    /\ nGrades = 2 /\ currentId = NoId /\ Len(words) = 2 /\ main.pc = "done"
    /\ \A i \in Slots : grd[i].pc = "idle"
    /\ DOMAIN progress = {"a", "b"}
    /\ \A id \in DOMAIN progress : progress[id].total = 0
    /\ meta = EmptyStore /\ nResets = 0

\* Lines 165-169: the catalog entries have pairwise different ids.
Distinct(ws) == \A a, b \in 1..Len(ws) : ws[a] = ws[b] => a = b

\* buildDueQueue returns in this step; its result; the clock reading `ts` it
\* compared with (line 180); the records its dbGetAll answered with.
DueReturns == sess.pc \in {"dueGetAll", "duePut"} /\ sess'.pc \in {"done", "fbGetAll"}
DueResult == IF sess'.pc = "fbGetAll" THEN <<>> ELSE <<currentId'>> \o queue'
DueTs == IF sess.pc = "dueGetAll" THEN now ELSE sess.ts
DueSnapshot == IF sess.pc = "dueGetAll" THEN progress ELSE sess.map

\* C11: when buildDueQueue returns, every id of the result has a stored
\* progress record whose dueAt is at most the time the build read the clock;
\* no id whose record is due later than that is in the result (stated for
\* catalogs without duplicate ids).
C11_DueQueueOnlyDue ==
    [][(DueReturns /\ Distinct(words)) =>
        \A k \in 1..Len(DueResult) :
            /\ Has(progress', DueResult[k])
            /\ progress'[DueResult[k]].dueAt <= DueTs]_vars

\* The ids buildDueQueue is to count as due: those whose record, as its
\* dbGetAll answered, is due at ts, and those that had no record.
DueSet ==
    {words[k] : k \in {j \in 1..Len(words) :
                         \/ ~Has(DueSnapshot, words[j])
                         \/ DueSnapshot[words[j]].dueAt <= DueTs}}

\* C12: buildDueQueue(limit) returns exactly min(limit, |D|) ids, all from
\* D, the catalog ids whose record is due at the time of the build; an id
\* without a stored record gets the default record with dueAt = that time,
\* persisted, and is counted in D (stated for catalogs without duplicate ids).
C12_DueQueueIsTheDueSet ==
    [][(DueReturns /\ Distinct(words)) =>
        /\ Len(DueResult) = Min(DueLimit, Cardinality(DueSet))
        /\ \A k \in 1..Len(DueResult) : DueResult[k] \in DueSet
        /\ \A j \in 1..Len(words) :
             ~Has(DueSnapshot, words[j]) =>
                /\ Has(progress', words[j])
                /\ progress'[words[j]] = defaultProgress(DueTs)]_vars

\* C14: once boot has finished, the progress store holds a record (one: the
\* store is keyed by id) for every catalog id in every reachable state, among
\* them the states during study sessions and during a full reset.
C14_OneRecordPerWord ==
    main.pc = "done" => \A k \in 1..Len(words) : Has(progress, words[k])
\* C14 as it holds: the same, in the states in which no full reset is running
\* (resetAll empties the store and then puts the records back one by one).
C14_OneRecordPerWordOutsideReset ==
    (main.pc = "done" /\ reset.pc = "idle") =>
        \A k \in 1..Len(words) : Has(progress, words[k])
\* After boot, a review and a finished full reset, both records are there.
C14_Witness ==
    /\ main.pc = "done" /\ reset.pc = "idle" /\ nResets = 1 /\ nGrades >= 1
    /\ words = <<"a", "b">>
    /\ DOMAIN progress = {"a", "b"}

\* The cards the running session still has to show: the current one, then the
\* queue.
Remaining == (IF currentId = NoId THEN <<>> ELSE <<currentId>>) \o queue

\* C18: in a session driven one event at a time, the ids of the queue built
\* at the session start become currentId one at a time in queue order and
\* each is graded once: the card under a grade stays current until that grade
\* completes, the completion removes exactly that card (it is not queued
\* again, whatever the grade) and makes the next id of the queue current,
\* nothing but a grade completion or a session start changes what remains,
\* and when nothing remains currentId is null and the queue is empty.
C18_SessionInQueueOrder ==
    [][/\ \A i \in Slots :
            /\ grd'[i].pc # "idle" => (grd'[i].id = currentId' /\ currentId' # NoId)
            /\ GradeCompletes(i) =>
                 /\ grd[i].id = currentId
                 /\ Remaining = <<grd[i].id>> \o Remaining'
       /\ (sess' = sess /\ \A i \in Slots : ~GradeCompletes(i)) => Remaining' = Remaining
       /\ currentId' = NoId => queue' = <<>>]_vars
\* A session of two cards, graded "again" and "good", has emptied.
C18_Witness ==
    /\ nSessions = 1 /\ sess.pc = "done" /\ nGrades = 2 /\ nResets = 0
    /\ \A i \in Slots : grd[i].pc = "idle"
    /\ currentId = NoId /\ queue = <<>>
    /\ DOMAIN progress = {"a", "b"}
    /\ progress["a"].total = 1 /\ progress["a"].correct = 0
    /\ progress["b"].total = 1 /\ progress["b"].correct = 1

\* A dbPut of a lazily created default record lands in this step: one of
\* boot's loop (line 446) or of buildDueQueue's loop (line 185).
LazyPutLands ==
    \/ main.pc = "put" /\ main' # main
    \/ sess.pc = "duePut" /\ sess' # sess

\* C20: lazy creation of a default record, by boot's loop or by
\* buildDueQueue, never replaces a stored record that carries review history:
\* with no full reset involved, a stored record that has been graded is left
\* as it is by every such write.
C20_LazyCreationKeepsHistory ==
    [][(LazyPutLands /\ nResets = 0) =>
        \A id \in DOMAIN progress :
            progress[id].total > 0 => progress'[id] = progress[id]]_vars

\* Invocation i of submitGrade has its record stored in this step (line 300).
GradeStores(i) == grd[i].pc = "putProgress" /\ grd'[i].pc # "putProgress"

\* C19: with handlers overlapping (a second grade click or a session start
\* while submitGrade is awaiting), no id leaves the session without being
\* graded and each grade is applied once to the id that was current at its
\* click: the card a completing submitGrade removes is the card it graded,
\* and storing its record raises the stored total of that id by exactly 1
\* (no full reset involved).
C19_GradesMatchRemovals ==
    [][nResets = 0 =>
        \A i \in Slots :
            /\ GradeCompletes(i) => grd[i].id = currentId
            /\ GradeStores(i) =>
                 /\ Has(progress, grd[i].id)
                 /\ progress'[grd[i].id].total = progress[grd[i].id].total + 1]_vars

\* resetAll returns in this step (line 416).
ResetCompletes == reset.pc # "idle" /\ reset'.pc = "idle"

\* C15: when resetAll completes, the meta store is empty and the progress
\* store holds, for every catalog id, a default record (intervalDays 0, ease
\* 2.5, reps 0, total 0, correct 0) and nothing else, whatever grade or
\* session events were issued before or while the reset was running.
C15_ResetLeavesDefaults ==
    [][ResetCompletes =>
        /\ meta' = EmptyStore
        /\ DOMAIN progress' = {words[k] : k \in 1..Len(words)}
        /\ \A id \in DOMAIN progress' :
             /\ progress'[id].intervalDays = RInt(0)
             /\ progress'[id].ease = EaseStart
             /\ progress'[id].reps = 0
             /\ progress'[id].total = 0
             /\ progress'[id].correct = 0]_vars

=============================================================================
